---- MODULE Spec2Model ----
(***************************************************************************)
(* Model of semantic_scholar_search: the Downloader of base/download.py    *)
(* (download_paper and the strategies it runs), the SearchDatabase of      *)
(* base/database.py and the batch loop of search_cli.py.                   *)
(*                                                                         *)
(* Strings that the code inspects character by character (titles, content  *)
(* types, URLs, response bytes) are sequences of one-character strings.    *)
(* Every outcome the environment decides (an HTTP response, a failing      *)
(* open(), a failing sqlite call) is a nondeterministic choice.            *)
(***************************************************************************)
EXTENDS Integers, Sequences, FiniteSets, TLC

\* ---------------------------------------------------------------- bounds
MaxCalls == 2
StartTime == 3
MaxResults == 2
MaxOACalls == 1
MaxLPCalls == 1
MaxRows == 3
MaxPages == 4

\* ------------------------------------------------------- program constants
ARXIV_RATE_LIMIT == 3
HTTP_OK == 200
HTTP_NOT_FOUND == 404
MAX_RESULTS_PER_PAGE == 1000
FIRST_ROW_ID == 1

\* The clock stops here: every call can still sleep out the rate limit.
MaxTime == StartTime + ARXIV_RATE_LIMIT * (MaxCalls + MaxResults)

VARIABLES
    download_stats,            \* Downloader.download_stats
    last_arxiv_request_time,   \* Downloader.last_arxiv_request_time
    dir_exists,                \* os.path.exists(self.get_directory())
    files,                     \* files written below the directory
    db_papers,                 \* rows of the papers table
    now,                       \* time.time()
    ncalls,                    \* download_paper calls made so far
    call,                      \* the most recent download_paper call
    main_pc,                   \* position of main()
    results_len,               \* len(results) in main()
    attempted,                 \* papers main's loop has handed to download_paper
    search_id,                 \* the id record_search returned to main()
    main_results,              \* results in main(): the papers, in order
    main_log,                  \* the calls main() has made, in order
    main_args,                 \* args of main(): the parsed command line
    main_exc,                  \* the exception that ended main(), if any
    main_summary,              \* the statistics main() has logged at its end
    oa_server,                 \* the answer the open-access host is set to give
    landing_page,              \* what the paper's landing page is set to serve
    db_searches,               \* rows of the searches table
    db_call,                   \* the most recent SearchDatabase call
    pdf_call,                  \* the most recent _handle_pdf_download call
    rate_call,                 \* the most recent _respect_arxiv_rate_limit call
    extract_call,              \* the most recent choice of an arXiv identifier
    sp,                        \* the search_papers call in progress
    init_call,                 \* the most recent Downloader(...) construction
    threads                    \* threads sharing one Downloader

dl_vars == <<download_stats, last_arxiv_request_time, dir_exists, files,
             db_papers, now, ncalls, call>>
main_vars == <<main_pc, results_len, attempted, search_id, main_results,
              main_log, main_args, main_exc, main_summary>>
more_vars == <<init_call, threads>>
unit_vars == <<db_call, pdf_call, rate_call, extract_call, sp, init_call,
               threads>>
vars == <<download_stats, last_arxiv_request_time, dir_exists, files,
          db_papers, now, ncalls, call, main_pc, results_len, attempted,
          search_id, main_results, main_log, main_args, main_exc,
          main_summary,
          oa_server, landing_page,
          db_searches, db_call, pdf_call, rate_call, extract_call, sp,
          init_call, threads>>

\* ------------------------------------------------------------ strings
UpperToLower ==
    ("A" :> "a") @@ ("P" :> "p") @@ ("D" :> "d") @@ ("F" :> "f") @@ ("T" :> "t")

LowerChar(c) ==
    IF c \in DOMAIN UpperToLower THEN UpperToLower[c] ELSE c

Lower(s) ==
    [i \in 1..Len(s) |-> LowerChar(s[i])]

StartsWith(s, prefix) ==
    /\ Len(s) >= Len(prefix)
    /\ SubSeq(s, 1, Len(prefix)) = prefix

EndsWith(s, suffix) ==
    /\ Len(s) >= Len(suffix)
    /\ SubSeq(s, Len(s) - Len(suffix) + 1, Len(s)) = suffix

Contains(s, sub) ==
    \E i \in 1..(Len(s) - Len(sub) + 1) : SubSeq(s, i, i + Len(sub) - 1) = sub

RECURSIVE Filter(_, _)
Filter(s, keep) ==
    IF s = <<>> THEN <<>>
    ELSE IF Head(s) \in keep THEN <<Head(s)>> \o Filter(Tail(s), keep)
    ELSE Filter(Tail(s), keep)

RECURSIVE RStrip(_)
RStrip(s) ==
    IF s /= <<>> /\ s[Len(s)] = " " THEN RStrip(SubSeq(s, 1, Len(s) - 1)) ELSE s

APPLICATION_PDF ==
    <<"a","p","p","l","i","c","a","t","i","o","n","/","p","d","f">>

\* Values of a response's content-type header; <<>> is the default the code
\* reads when the header is absent.
ContentTypes ==
    { APPLICATION_PDF,
      <<"A","p","p","l","i","c","a","t","i","o","n","/","P","D","F">>,
      APPLICATION_PDF \o <<";","c">>,
      <<"x">> \o APPLICATION_PDF,
      <<"a","p","p","l","i","c","a","t","i","o","n","/","p","d">>,
      <<"t","e","x","t">>,
      <<>> }

AlnumChars == {"T", "a", "b", "1"}

\* The characters download_paper keeps in a title: c.isalnum() or c in " -_".
TitleChars == AlnumChars \cup {" ", "-", "_"}

Titles ==
    { <<"T", ":", " ", "a", "-", "b", "_", "1", " ">> }

\* ------------------------------------------------------------- papers
NoPdfRef == [shape |-> "None", url |-> <<>>]

OpenAccessPdfs ==
    { NoPdfRef,
      [shape |-> "attr", url |-> <<"u">>],
      [shape |-> "map", url |-> <<"u">>],
      [shape |-> "map", url |-> <<>>] }

\* url and arxivId: "absent" (no such attribute), "None", or a value.
Papers ==
    [ title : Titles,
      isOpenAccess : BOOLEAN,
      openAccessPdf : OpenAccessPdfs,
      url : {"absent", "None", "http"},
      arxivId : {"absent", "None", "id"} ]

SearchIds == {FIRST_ROW_ID}

\* ------------------------------------------------------------- paths
NonePath == [name |-> <<>>, ext |-> "None"]

\* lines 119-122: the title without the characters that are neither
\* alphanumeric nor " ", "-", "_", right-stripped, + ".pdf", in the directory.
safe_title(title) ==
    RStrip(Filter(title, TitleChars))

base_filename(title) ==
    [name |-> safe_title(title), ext |-> ".pdf"]

\* line 192: base_filename.replace(".pdf", "_arxiv_links.txt")
txt_filename(base) ==
    [base EXCEPT !.ext = "_arxiv_links.txt"]

WriteFile(fs, path, content) ==
    {f \in fs : f.path /= path} \cup {[path |-> path, content |-> content]}

\* ------------------------------------------------- environment outcomes
Statuses == {HTTP_OK, HTTP_NOT_FOUND}

\* What requests.get gives the open-access strategy: it raises (a transport
\* error, an invalid URL), or it returns a response.
OAResponses ==
    {[raised |-> TRUE, status |-> 0, ctype |-> <<>>]}
    \cup [raised : {FALSE}, status : Statuses, ctype : ContentTypes]

\* No request was made.
NoResponse == [raised |-> FALSE, status |-> 0, ctype |-> <<>>]

\* Statuses raise_for_status turns into an HTTPError: the three the handler
\* of lines 304-314 names, and one it does not.
HttpErrorStatuses == {HTTP_NOT_FOUND, 403, 503, 500}

PDF_MAGIC == <<"%", "P", "D", "F", "-">>

DOT_PDF == <<".", "p", "d", "f">>

Contents ==
    { PDF_MAGIC \o <<"1">>, <<"%", "P", "D", "F">>, <<"<", "h">> }

\* What session.get followed by raise_for_status gives _handle_pdf_download.
PdfResponses ==
    {[kind |-> k, status |-> 0, ctype |-> <<>>, content |-> <<>>] :
        k \in {"timeout", "error"}}
    \cup {[kind |-> "http_error", status |-> st, ctype |-> <<>>,
           content |-> <<>>] : st \in HttpErrorStatuses}
    \cup [kind : {"ok"}, status : {HTTP_OK}, ctype : ContentTypes,
          content : Contents]

\* PDF URLs a reader page can name.
PdfUrls ==
    { <<"u">>, <<"u", "/">>, <<"u", ".", "P", "D", "F">> }

\* ------------------------------------------------- open-access strategy
\* line 128
OAApplicable(p) ==
    p.isOpenAccess /\ p.openAccessPdf.shape /= "None"

\* lines 129-133: the url attribute of an object, else the mapping's "url".
pdf_url_of(ref) ==
    IF ref.shape = "attr" THEN ref.url ELSE ref.url

OAAcceptCaseSensitive(resp) ==
    resp.status = HTTP_OK /\ StartsWith(resp.ctype, APPLICATION_PDF)

\* lines 141-143
OAAccept(resp) ==
    resp.status = HTTP_OK /\ StartsWith(Lower(resp.ctype), APPLICATION_PDF)

\* lines 138-153 for one response and one outcome of open()/write().
OAAfterGet(loc, resp, write_ok) ==
    LET got == [loc EXCEPT !.events = @ \o <<"oa_get">>] IN
    IF resp.raised THEN [got EXCEPT !.exc = TRUE]
    ELSE IF OAAccept(resp) THEN
        IF write_ok THEN
            [got EXCEPT !.events = @ \o <<"oa_write">>,
                        !.files = WriteFile(@, loc.base, "oa_content"),
                        !.success = TRUE,
                        !.method = "open_access",
                        !.stats.open_access_success = @ + 1]
        ELSE [got EXCEPT !.events = @ \o <<"oa_write_error">>, !.exc = TRUE]
    ELSE got

\* lines 127-157, the host answering with one of oa_responses.
OpenAccessStep(p, loc, oa_responses) ==
    IF OAApplicable(p) /\ pdf_url_of(p.openAccessPdf) /= <<>> THEN
        {OAAfterGet(loc, resp, w) : resp \in oa_responses, w \in BOOLEAN}
    ELSE {loc}

\* ---------------------------------------------- semantic-reader strategy
\* lines 254-318: one outcome of _handle_pdf_download, for the responses r1
\* (first GET), r2 (the GET of the URL with .pdf appended) and the outcome
\* of the file write: whether it returns True (it then has written the
\* file) and the requests and writes it made.
RECURSIVE RStripSlash(_)
\* line 280: pdf_url.rstrip("/")
RStripSlash(s) ==
    IF s /= <<>> /\ s[Len(s)] = "/" THEN RStripSlash(SubSeq(s, 1, Len(s) - 1))
    ELSE s

\* line 280: the URL of the second attempt.
pdf_url_alt(pdf_url) ==
    RStripSlash(pdf_url) \o DOT_PDF

handle_pdf_download_unverified(pdf_url, r1, r2, write_ok) ==
    LET direct == \/ Contains(Lower(r1.ctype), APPLICATION_PDF)
                  \/ StartsWith(r1.content, PDF_MAGIC)
        retry == ~direct /\ ~EndsWith(Lower(pdf_url), DOT_PDF)
        ev == IF retry THEN <<"pdf_get", "pdf_get_alt">> ELSE <<"pdf_get">>
        urls == IF retry THEN <<pdf_url, pdf_url_alt(pdf_url)>>
                ELSE <<pdf_url>>
        fail(e, u) == [ok |-> FALSE, events |-> e, written |-> <<>>,
                       requests |-> u]
        content == IF retry THEN r2.content ELSE r1.content
    IN  IF r1.kind /= "ok" THEN fail(<<"pdf_get">>, <<pdf_url>>)
        ELSE IF retry /\ r2.kind /= "ok" THEN fail(ev, urls)
        ELSE IF TRUE THEN
            IF write_ok THEN [ok |-> TRUE, events |-> ev \o <<"pdf_write">>,
                              written |-> content, requests |-> urls]
            ELSE fail(ev \o <<"pdf_write_error">>, urls)
        ELSE fail(ev, urls)

handle_pdf_download_always_retry(pdf_url, r1, r2, write_ok) ==
    LET direct == \/ Contains(Lower(r1.ctype), APPLICATION_PDF)
                  \/ StartsWith(r1.content, PDF_MAGIC)
        retry == ~direct
        ev == IF retry THEN <<"pdf_get", "pdf_get_alt">> ELSE <<"pdf_get">>
        urls == IF retry THEN <<pdf_url, pdf_url_alt(pdf_url)>>
                ELSE <<pdf_url>>
        fail(e, u) == [ok |-> FALSE, events |-> e, written |-> <<>>,
                       requests |-> u]
        content == IF retry THEN r2.content ELSE r1.content
    IN  IF r1.kind /= "ok" THEN fail(<<"pdf_get">>, <<pdf_url>>)
        ELSE IF retry /\ r2.kind /= "ok" THEN fail(ev, urls)
        ELSE IF StartsWith(content, PDF_MAGIC) THEN
            IF write_ok THEN [ok |-> TRUE, events |-> ev \o <<"pdf_write">>,
                              written |-> content, requests |-> urls]
            ELSE fail(ev \o <<"pdf_write_error">>, urls)
        ELSE fail(ev, urls)

\* written: the bytes written to base_filename, <<>> when none are;
\* requests: the URLs a GET was issued to, in order.
handle_pdf_download(pdf_url, r1, r2, write_ok) ==
    LET direct == \/ Contains(Lower(r1.ctype), APPLICATION_PDF)
                  \/ StartsWith(r1.content, PDF_MAGIC)
        retry == ~direct /\ ~EndsWith(Lower(pdf_url), DOT_PDF)
        ev == IF retry THEN <<"pdf_get", "pdf_get_alt">> ELSE <<"pdf_get">>
        urls == IF retry THEN <<pdf_url, pdf_url_alt(pdf_url)>>
                ELSE <<pdf_url>>
        fail(e, u) == [ok |-> FALSE, events |-> e, written |-> <<>>,
                       requests |-> u]
        content == IF retry THEN r2.content ELSE r1.content
    IN  IF r1.kind /= "ok" THEN fail(<<"pdf_get">>, <<pdf_url>>)
        ELSE IF retry /\ r2.kind /= "ok" THEN fail(ev, urls)
        ELSE IF StartsWith(content, PDF_MAGIC) THEN
            IF write_ok THEN [ok |-> TRUE, events |-> ev \o <<"pdf_write">>,
                              written |-> content, requests |-> urls]
            ELSE fail(ev \o <<"pdf_write_error">>, urls)
        ELSE fail(ev, urls)

HandlePdfOutcomes ==
    {handle_pdf_download(u, r1, r2, w) :
        u \in PdfUrls, r1 \in PdfResponses, r2 \in PdfResponses,
        w \in BOOLEAN}

\* What download_paper can observe of a _handle_pdf_download call: whether
\* it made requests, whether it opened the file for writing, its result.
SemanticReaderView(o) ==
    [ok |-> o.ok,
     events |-> <<"sr_get">> \o
        (IF o.ok THEN <<"sr_write">>
         ELSE IF o.events /= <<>> /\ o.events[Len(o.events)] = "pdf_write_error"
              THEN <<"sr_write_error">>
         ELSE <<>>)]

\* lines 320-405: the outcomes of _try_semantic_reader on a landing page
\* that can be fetched: the page or the reader page fails or names no link,
\* or _handle_pdf_download runs on the PDF URL found.
SemanticReaderOutcomes ==
    {[ok |-> FALSE, events |-> <<"sr_get">>]}
    \cup {SemanticReaderView(o) : o \in HandlePdfOutcomes}

\* What the landing page can be: its request fails, it is an HTML page with
\* or without a Semantic Reader link, or it is a PDF document.
LandingPages == {"error", "no_link", "link", "pdf"}

\* lines 329-400: only a page that names a reader link leads further; the
\* text of a PDF document has no anchor and no script element.
LandingPageOutcomes(page) ==
    IF page = "link" THEN SemanticReaderOutcomes
    ELSE {[ok |-> FALSE, events |-> <<"sr_get">>]}

\* _try_semantic_reader catches every exception itself (line 403); a url
\* that is None raises in session.get before any request.
try_semantic_reader(paper_url, pages) ==
    IF paper_url /= "http" THEN {[ok |-> FALSE, events |-> <<>>]}
    ELSE UNION {LandingPageOutcomes(page) : page \in pages}

SRApplicableAlways(p, success) ==
    p.url /= "absent"

\* line 160
SRApplicable(p, success) ==
    ~success /\ p.url /= "absent"

\* lines 159-170
SemanticReaderStep(p, loc, pages) ==
    IF loc.exc \/ ~SRApplicable(p, loc.success) THEN {loc}
    ELSE {[loc EXCEPT !.events = @ \o o.events,
                      !.files = IF o.ok
                                THEN WriteFile(@, loc.base, "pdf_bytes")
                                ELSE @,
                      !.success = o.ok,
                      !.method = IF o.ok THEN "semantic_reader" ELSE @,
                      !.stats.semantic_reader_success =
                          IF o.ok THEN @ + 1 ELSE @] :
            o \in try_semantic_reader(p.url, pages)}

\* -------------------------------------------------------- rate limiter
\* By how much a time.sleep(d) can last longer than d.
Oversleeps == {0, 1}

respect_arxiv_rate_limit_no_sleep(t, last, oversleep) ==
    LET time_since_last_request == t - last
    IN  [now |-> t, last |-> t, slept |-> 0]

respect_arxiv_rate_limit_full_sleep(t, last, oversleep) ==
    LET time_since_last_request == t - last
        sleep_time == ARXIV_RATE_LIMIT
        after == IF time_since_last_request < ARXIV_RATE_LIMIT
                 THEN t + sleep_time + oversleep ELSE t
    IN  [now |-> after, last |-> after, slept |->
            IF time_since_last_request < ARXIV_RATE_LIMIT THEN sleep_time ELSE 0]

respect_arxiv_rate_limit_stamp_before(t, last, oversleep) ==
    LET time_since_last_request == t - last
        sleep_time == ARXIV_RATE_LIMIT - time_since_last_request
        after == IF time_since_last_request < ARXIV_RATE_LIMIT
                 THEN t + sleep_time + oversleep ELSE t
    IN  [now |-> after, last |-> t, slept |->
            IF time_since_last_request < ARXIV_RATE_LIMIT THEN sleep_time ELSE 0]

\* lines 91-101: the clock and last_arxiv_request_time after
\* _respect_arxiv_rate_limit, called at time t with last request time last,
\* and the duration it asked time.sleep for (0: no sleep); a sleep lasts the
\* duration asked for and oversleep more.
respect_arxiv_rate_limit(t, last, oversleep) ==
    LET time_since_last_request == t - last
        sleep_time == ARXIV_RATE_LIMIT - time_since_last_request
        after == IF time_since_last_request < ARXIV_RATE_LIMIT
                 THEN t + sleep_time + oversleep ELSE t
    IN  [now |-> after, last |-> after, slept |->
            IF time_since_last_request < ARXIV_RATE_LIMIT THEN sleep_time ELSE 0]

\* ------------------------------------------------------ arXiv strategy
ArxivApplicableAlways(p, success) ==
    p.arxivId /= "absent"

\* line 173
ArxivApplicable(p, success) ==
    ~success /\ p.arxivId /= "absent"

\* lines 175-200 for one outcome of writing the links file.
ArxivAfterLimit(p, loc, write_ok, oversleep) ==
    LET rl == respect_arxiv_rate_limit(loc.now, loc.last, oversleep)
        limited == [loc EXCEPT !.events = @ \o <<"rate_limit">>,
                               !.now = rl.now, !.last = rl.last]
    IN  IF p.arxivId = "None" THEN [limited EXCEPT !.exc = TRUE]
        ELSE LET counted == [limited EXCEPT !.success = TRUE,
                                            !.method = "arxiv",
                                            !.stats.arxiv_success = @ + 1]
             IN IF write_ok THEN
                    [counted EXCEPT
                        !.events = @ \o <<"arxiv_write">>,
                        !.files = WriteFile(@, txt_filename(loc.base),
                                            "arxiv_links"),
                        !.base = txt_filename(loc.base)]
                ELSE [counted EXCEPT !.events = @ \o <<"arxiv_write_error">>,
                                     !.exc = TRUE]

\* lines 172-202
ArxivStep(p, loc) ==
    IF loc.exc \/ ~ArxivApplicable(p, loc.success) THEN {loc}
    ELSE {ArxivAfterLimit(p, loc, w, x) : w \in BOOLEAN, x \in Oversleeps}

\* ------------------------------------------------------- orchestrator
OnNoSuccessKeepPath(loc) ==
    [loc EXCEPT !.stats.failed = @ + 1]

\* lines 204-207
OnNoSuccess(loc) ==
    [loc EXCEPT !.base = NonePath, !.stats.failed = @ + 1]

OnExceptionNoCount(loc) ==
    [loc EXCEPT !.base = NonePath, !.success = FALSE]

\* lines 209-213
OnException(loc) ==
    [loc EXCEPT !.base = NonePath, !.success = FALSE, !.stats.failed = @ + 1]

\* lines 204-213: how the try block ends.
EndOfTry(loc) ==
    IF loc.exc THEN OnException(loc)
    ELSE IF ~loc.success THEN OnNoSuccess(loc)
    ELSE loc

RecorderCallsOnSuccess(loc, sid) ==
    IF loc.success
    THEN <<[search_id |-> sid, path |-> loc.base, success |-> loc.success]>>
    ELSE <<>>

\* line 216: the invocations of db.record_paper.
RecorderCalls(loc, sid) ==
    <<[search_id |-> sid, path |-> loc.base, success |-> loc.success]>>

insert_row_replacing_last(table, row) ==
    IF table = <<>> THEN <<row>> ELSE [table EXCEPT ![Len(table)] = row]

\* database.py lines 78-101 and 116-138: INSERT INTO, then commit.
insert_row(table, row) ==
    Append(table, row)

\* database.py line 98: c.lastrowid after the INSERT into a table whose ids
\* are AUTOINCREMENT and from which no row is ever deleted.
lastrowid(table_before) ==
    FIRST_ROW_ID + Len(table_before)

paper_row_always_stamped(sid, p, download_path, download_success) ==
    [search_id |-> sid, title |-> p.title, download_path |-> download_path,
     download_success |-> download_success,
     has_timestamp |-> TRUE]

\* database.py lines 103-138: the row record_paper inserts; the timestamp
\* is set exactly when download_path is truthy.
paper_row(sid, p, download_path, download_success) ==
    [search_id |-> sid, title |-> p.title, download_path |-> download_path,
     download_success |-> download_success,
     has_timestamp |-> download_path /= NonePath]

RECURSIVE InsertRows(_, _, _)
InsertRows(db, p, invocations) ==
    IF invocations = <<>> THEN db
    ELSE InsertRows(
            insert_row(db, paper_row(Head(invocations).search_id, p,
                                     Head(invocations).path,
                                     Head(invocations).success)),
            p, Tail(invocations))

DirectoryPresentAlways(exists) ==
    TRUE

\* line 113
DirectoryPresent(exists) ==
    exists

\* lines 103-218: every outcome of download_paper(p, sid) from the state st
\* of the Downloader and its environment.
download_paper(p, sid, st, oa_responses, pages) ==
    LET counted == [st.stats EXCEPT !.total = @ + 1]
        out0 == [stats |-> counted, files |-> st.files, db |-> st.db,
                 now |-> st.now, last |-> st.last, events |-> <<>>,
                 recorded |-> <<>>,
                 raised |-> "None", exc |-> FALSE,
                 ret_path |-> NonePath, ret_method |-> "None"]
        loc0 == [stats |-> counted, files |-> st.files, now |-> st.now,
                 last |-> st.last, success |-> FALSE, method |-> "None",
                 base |-> base_filename(p.title), exc |-> FALSE,
                 events |-> <<>>]
        tried == UNION {UNION {ArxivStep(p, l2) :
                                 l2 \in SemanticReaderStep(p, l1, pages)} :
                          l1 \in OpenAccessStep(p, loc0, oa_responses)}
        finish(l, db_ok) ==
            LET e == EndOfTry(l)
                inv == RecorderCalls(e, sid)
                base == [out0 EXCEPT !.stats = e.stats, !.files = e.files,
                                     !.now = e.now, !.last = e.last,
                                     !.events = e.events,
                                     !.exc = l.exc,
                                     !.recorded = inv]
            IN  IF db_ok \/ inv = <<>> THEN
                    [base EXCEPT !.db = InsertRows(st.db, p, inv),
                                 !.ret_path = e.base,
                                 !.ret_method = e.method]
                ELSE [base EXCEPT !.raised = "DatabaseError"]
    IN  IF ~DirectoryPresent(st.dir) THEN {[out0 EXCEPT !.raised = "ValueError"]}
        ELSE {finish(l, db_ok) : l \in tried, db_ok \in BOOLEAN}

\* ------------------------------------------------------------ state
\* lines 53-62: download_stats and last_arxiv_request_time after __init__.
InitStats ==
    [total |-> 0, open_access_success |-> 0, semantic_reader_success |-> 0,
     arxiv_success |-> 0, failed |-> 0]

NoCall ==
    [made |-> FALSE,
     paper |-> [title |-> <<>>, isOpenAccess |-> FALSE,
                openAccessPdf |-> NoPdfRef, url |-> "absent",
                arxivId |-> "absent"],
     search_id |-> 0, dir |-> FALSE, pre |-> InitStats, pre_files |-> {},
     events |-> <<>>,
     recorded |-> <<>>, raised |-> "None", exc |-> FALSE,
     ret_path |-> NonePath, ret_method |-> "None"]

DownloaderInit ==
    /\ download_stats = InitStats
    /\ last_arxiv_request_time = 0
    /\ dir_exists = FALSE
    /\ files = {}
    /\ db_papers = <<>>
    /\ now = StartTime
    /\ ncalls = 0
    /\ call = NoCall

NoArgs == [max_results_per_page |-> 0]

MainIdle ==
    /\ main_pc = "idle"
    /\ results_len = 0
    /\ attempted = 0
    /\ search_id = 0
    /\ main_results = <<>>
    /\ main_log = <<>>
    /\ main_args = NoArgs
    /\ main_exc = "None"
    /\ main_summary = [made |-> FALSE]

\* No call of the kind has been made.
Unused == [made |-> FALSE]

MoreIdle ==
    /\ init_call = Unused
    /\ threads = Unused

DbIdle ==
    /\ db_searches = <<>>
    /\ db_call = Unused

UnitIdle ==
    /\ DbIdle
    /\ pdf_call = Unused
    /\ rate_call = Unused
    /\ extract_call = Unused
    /\ sp = Unused
    /\ MoreIdle

Init ==
    /\ DownloaderInit
    /\ MainIdle
    /\ UnitIdle
    /\ oa_server = NoResponse
    /\ landing_page = "any"

DownloaderState ==
    [stats |-> download_stats, files |-> files, db |-> db_papers,
     now |-> now, last |-> last_arxiv_request_time, dir |-> dir_exists]

\* The state after download_paper(p, sid) ended with outcome out.
ApplyOutcome(p, sid, out) ==
    /\ out.now <= MaxTime
    /\ download_stats' = out.stats
    /\ files' = out.files
    /\ db_papers' = out.db
    /\ now' = out.now
    /\ last_arxiv_request_time' = out.last
    /\ ncalls' = ncalls + 1
    /\ call' = [made |-> TRUE, paper |-> p, search_id |-> sid,
                dir |-> dir_exists, pre |-> download_stats,
                pre_files |-> files,
                events |-> out.events, recorded |-> out.recorded,
                raised |-> out.raised, exc |-> out.exc,
                ret_path |-> out.ret_path, ret_method |-> out.ret_method]
    /\ UNCHANGED <<dir_exists, oa_server, landing_page, db_searches,
                   unit_vars>>

\* lines 88-89
CreateDirectory ==
    /\ main_pc = "idle"
    /\ dir_exists' = TRUE
    /\ UNCHANGED <<download_stats, last_arxiv_request_time, files, db_papers,
                   now, ncalls, call, main_vars, oa_server, landing_page,
                   db_searches, unit_vars>>

\* A caller's download_paper(p, sid) on the Downloader, the open-access
\* host free to answer anything.
DownloadPaper ==
    /\ main_pc = "idle"
    /\ ncalls < MaxCalls
    /\ \E p \in Papers, sid \in SearchIds :
         \E out \in download_paper(p, sid, DownloaderState, OAResponses,
                                  LandingPages) :
            ApplyOutcome(p, sid, out)
    /\ UNCHANGED main_vars

Next ==
    \/ CreateDirectory
    \/ DownloadPaper

Spec == Init /\ [][Next]_vars

\* ------------------------------------- one call against a known response
OAInit ==
    /\ DownloaderInit
    /\ MainIdle
    /\ UnitIdle
    /\ oa_server \in OAResponses
    /\ landing_page = "any"

\* download_paper(p, sid) while the open-access host answers oa_server.
OADownloadPaper ==
    /\ main_pc = "idle"
    /\ ncalls < MaxOACalls
    /\ \E p \in Papers, sid \in SearchIds :
         \E out \in download_paper(p, sid, DownloaderState, {oa_server},
                                  LandingPages) :
            ApplyOutcome(p, sid, out)
    /\ UNCHANGED main_vars

OANext ==
    \/ CreateDirectory
    \/ OADownloadPaper

OASpec == OAInit /\ [][OANext]_vars

\* ------------------------------- one call against a known landing page
LPInit ==
    /\ DownloaderInit
    /\ MainIdle
    /\ UnitIdle
    /\ oa_server = NoResponse
    /\ landing_page \in LandingPages

\* download_paper(p, sid) while the paper's landing page serves landing_page.
LPDownloadPaper ==
    /\ main_pc = "idle"
    /\ ncalls < MaxLPCalls
    /\ \E p \in Papers, sid \in SearchIds :
         \E out \in download_paper(p, sid, DownloaderState, OAResponses,
                                  {landing_page}) :
            ApplyOutcome(p, sid, out)
    /\ UNCHANGED main_vars

LPNext ==
    \/ CreateDirectory
    \/ LPDownloadPaper

LPSpec == LPInit /\ [][LPNext]_vars

\* ----------------------------------------------- _handle_pdf_download
\* The arguments and the environment of one _handle_pdf_download call: the
\* URL, what the two requests would answer, whether the file can be written.
PdfInit ==
    /\ DownloaderInit
    /\ MainIdle
    /\ DbIdle
    /\ rate_call = Unused
    /\ extract_call = Unused
    /\ sp = Unused
    /\ MoreIdle
    /\ oa_server = NoResponse
    /\ landing_page = "any"
    /\ pdf_call \in [made : {FALSE}, pdf_url : PdfUrls, title : Titles,
                     r1 : PdfResponses, r2 : PdfResponses,
                     write_ok : BOOLEAN]

\* lines 254-318: _handle_pdf_download(pdf_url, base_filename, paper).
HandlePdfDownload ==
    /\ ~pdf_call.made
    /\ LET o == handle_pdf_download(pdf_call.pdf_url, pdf_call.r1,
                                    pdf_call.r2, pdf_call.write_ok)
       IN  /\ pdf_call' = [made |-> TRUE, pdf_url |-> pdf_call.pdf_url,
                           title |-> pdf_call.title,
                           r1 |-> pdf_call.r1, r2 |-> pdf_call.r2,
                           write_ok |-> pdf_call.write_ok,
                           ok |-> o.ok, events |-> o.events,
                           requests |-> o.requests]
           /\ files' = IF o.ok
                       THEN WriteFile(files, base_filename(pdf_call.title),
                                      o.written)
                       ELSE files
    /\ UNCHANGED <<download_stats, last_arxiv_request_time, dir_exists,
                   db_papers, now, ncalls, call, main_vars, oa_server,
                   landing_page, db_searches, db_call, rate_call,
                   extract_call, sp,
                   more_vars>>

PdfNext ==
    HandlePdfDownload

PdfSpec == PdfInit /\ [][PdfNext]_vars

\* ------------------------------------------- _respect_arxiv_rate_limit
RateInit ==
    /\ DownloaderInit
    /\ MainIdle
    /\ DbIdle
    /\ pdf_call = Unused
    /\ extract_call = Unused
    /\ sp = Unused
    /\ MoreIdle
    /\ oa_server = NoResponse
    /\ landing_page = "any"
    /\ rate_call = [made |-> FALSE, returned_at |-> 0]

\* Time passes between two calls.
RateTick ==
    /\ now < MaxTime
    /\ now' = now + 1
    /\ UNCHANGED <<download_stats, last_arxiv_request_time, dir_exists, files,
                   db_papers, ncalls, call, main_vars, oa_server,
                   landing_page, db_searches, unit_vars>>

\* lines 91-101: one call, run to its end before the next one starts.
RespectArxivRateLimit ==
    /\ \E oversleep \in Oversleeps :
         LET rl == respect_arxiv_rate_limit(now, last_arxiv_request_time,
                                            oversleep)
         IN  /\ rl.now <= MaxTime
             /\ now' = rl.now
             /\ last_arxiv_request_time' = rl.last
             /\ rate_call' = [made |-> TRUE,
                              elapsed |-> now - last_arxiv_request_time,
                              slept |-> rl.slept,
                              returned_at |-> rl.now,
                              after_call |-> rate_call.made,
                              prev_returned_at |-> rate_call.returned_at]
    /\ UNCHANGED <<download_stats, dir_exists, files, db_papers, ncalls, call,
                   main_vars, oa_server, landing_page, db_searches, db_call,
                   pdf_call, extract_call, sp,
                   more_vars>>

RateNext ==
    \/ RateTick
    \/ RespectArxivRateLimit

RateSpec == RateInit /\ [][RateNext]_vars

\* ------------------------------------- the arXiv identifier of a paper
RECURSIVE LStrip(_)
LStrip(s) ==
    IF s /= <<>> /\ Head(s) = " " THEN LStrip(Tail(s)) ELSE s

\* str.strip()
Strip(s) ==
    LStrip(RStrip(s))

NoJournal == [name |-> <<>>, volume |-> <<>>]

ARXIV == <<"A", "r", "X", "i", "v">>

\* paper.journal: None, or a journal with a name and a volume.
Journals ==
    { NoJournal,
      [name |-> ARXIV, volume |-> <<"a", "b", "s", "/", "1">>],
      [name |-> ARXIV, volume |-> <<"1">>],
      [name |-> <<"N">>, volume |-> <<"7">>] }

\* The arXiv identifier a URL carries (arxiv.org/abs/<id>), <<>> for a URL
\* that is empty or of another site.
UrlArxivIds == { <<>>, <<"1">>, <<"2">> }

\* paper.arxivId: no such attribute, None, or a string.
ArxivIdAttrs ==
    { [kind |-> "absent", value |-> <<>>],
      [kind |-> "None", value |-> <<>>],
      [kind |-> "str", value |-> <<" ", "3", " ">>],
      [kind |-> "str", value |-> <<"1">>] }

\* The attributes of a paper that can name its arXiv identifier.
IdentifiedPapers ==
    [ journal : Journals,
      url_id : UrlArxivIds,
      externalIds : { <<>>, <<"1">>, <<"4">> },
      alternate_id : { <<>>, <<"5">> },
      arxivId : ArxivIdAttrs ]

\* line 173: the arXiv strategy runs for a paper that has the attribute.
has_arxiv_id(p) ==
    p.arxivId.kind /= "absent"

\* lines 173-178: the identifier download_paper uses for the arXiv links,
\* paper.arxivId.strip(); None has no strip and raises.
arxiv_id_of(p) ==
    IF ~has_arxiv_id(p) THEN [attempted |-> FALSE, raised |-> FALSE, id |-> <<>>]
    ELSE IF p.arxivId.kind = "None"
         THEN [attempted |-> TRUE, raised |-> TRUE, id |-> <<>>]
    ELSE [attempted |-> TRUE, raised |-> FALSE, id |-> Strip(p.arxivId.value)]

ExtractInit ==
    /\ DownloaderInit
    /\ MainIdle
    /\ DbIdle
    /\ pdf_call = Unused
    /\ rate_call = Unused
    /\ sp = Unused
    /\ MoreIdle
    /\ oa_server = NoResponse
    /\ landing_page = "any"
    /\ extract_call \in [made : {FALSE}, paper : IdentifiedPapers]

\* lines 173-180 of download_paper, no earlier strategy having succeeded.
ArxivIdentify ==
    /\ ~extract_call.made
    /\ LET r == arxiv_id_of(extract_call.paper)
       IN  extract_call' = [made |-> TRUE, paper |-> extract_call.paper,
                            attempted |-> r.attempted, raised |-> r.raised,
                            id |-> r.id]
    /\ UNCHANGED <<dl_vars, main_vars, oa_server, landing_page, db_searches,
                   db_call, pdf_call, rate_call, sp,
                   more_vars>>

ExtractNext ==
    ArxivIdentify

ExtractSpec == ExtractInit /\ [][ExtractNext]_vars

\* -------------------------------------------------- Downloader.__init__
RELEVANCE_DESC == "relevance:desc"

\* The choices of --sort.
Sorts ==
    {"citationCount:desc", RELEVANCE_DESC, "publicationDate:desc",
     "publicationDate:asc"}

\* The arguments of Downloader(...) that __init__ looks at or rewrites.
InitArgs ==
    [bulk : BOOLEAN, max_pages : {1, 5},
     max_results_per_page : {1, 10, 100, MAX_RESULTS_PER_PAGE},
     sort : Sorts]

downloader_init_branches_swapped(a) ==
    [bulk |-> a.bulk, max_pages |-> a.max_pages,
     max_results_per_page |->
        IF ~a.bulk THEN MAX_RESULTS_PER_PAGE ELSE a.max_results_per_page,
     sort |-> IF ~a.bulk THEN a.sort ELSE RELEVANCE_DESC,
     download_stats |-> InitStats,
     last_arxiv_request_time |-> 0]

\* lines 29-62: the attributes of the Downloader after __init__(a).
downloader_init(a) ==
    [bulk |-> a.bulk, max_pages |-> a.max_pages,
     max_results_per_page |->
        IF a.bulk THEN MAX_RESULTS_PER_PAGE ELSE a.max_results_per_page,
     sort |-> IF a.bulk THEN a.sort ELSE RELEVANCE_DESC,
     download_stats |-> InitStats,
     last_arxiv_request_time |-> 0]

ConstructInit ==
    /\ DownloaderInit
    /\ MainIdle
    /\ DbIdle
    /\ pdf_call = Unused
    /\ rate_call = Unused
    /\ extract_call = Unused
    /\ sp = Unused
    /\ threads = Unused
    /\ oa_server = NoResponse
    /\ landing_page = "any"
    /\ init_call \in [made : {FALSE}, args : InitArgs]

\* lines 14-62: Downloader(db, session_id, query, bulk, ...).
ConstructDownloader ==
    /\ ~init_call.made
    /\ LET self == downloader_init(init_call.args)
       IN  /\ init_call' = [made |-> TRUE, args |-> init_call.args,
                            self |-> self]
           /\ download_stats' = self.download_stats
           /\ last_arxiv_request_time' = self.last_arxiv_request_time
    /\ UNCHANGED <<dir_exists, files, db_papers, now, ncalls, call, main_vars,
                   oa_server, landing_page, db_searches, db_call, pdf_call,
                   rate_call, extract_call, sp, threads>>

ConstructNext ==
    ConstructDownloader

ConstructSpec == ConstructInit /\ [][ConstructNext]_vars

\* ------------------------------------ two threads on one Downloader
\* Two threads call download_paper on the same Downloader, each for a paper
\* that only the arXiv strategy serves. A thread can be pre-empted between
\* any two of the reads and writes below: a += on a dictionary entry is a
\* read followed by a write, and time.sleep releases the interpreter.
Threads == {1, 2}

ThreadStart == [pc |-> "start", reg |-> 0, wake |-> 0, passed_at |-> 0]

ThreadsInit ==
    /\ DownloaderInit
    /\ MainIdle
    /\ DbIdle
    /\ pdf_call = Unused
    /\ rate_call = Unused
    /\ extract_call = Unused
    /\ sp = Unused
    /\ init_call = Unused
    /\ oa_server = NoResponse
    /\ landing_page = "any"
    /\ threads = [th |-> [t \in Threads |-> ThreadStart],
                  overlapped |-> FALSE]

ThreadFrame ==
    UNCHANGED <<dir_exists, files, db_papers, ncalls, call, main_vars,
                oa_server, landing_page, db_searches, db_call, pdf_call,
                rate_call, extract_call, sp, init_call>>

\* line 111, the read of download_stats["total"]; the call overlaps the
\* other thread's if that one is under way.
ThreadLoadTotal(t) ==
    /\ threads.th[t].pc = "start"
    /\ threads' = [threads EXCEPT
           !.th[t].pc = "total_loaded",
           !.th[t].reg = download_stats.total,
           !.overlapped = @ \/ \E u \in Threads \ {t} :
                                 threads.th[u].pc \notin {"start", "done"}]
    /\ UNCHANGED <<download_stats, last_arxiv_request_time, now>>
    /\ ThreadFrame

\* line 111, the write of download_stats["total"].
ThreadStoreTotal(t) ==
    /\ threads.th[t].pc = "total_loaded"
    /\ download_stats' = [download_stats EXCEPT !.total = threads.th[t].reg + 1]
    /\ threads' = [threads EXCEPT !.th[t].pc = "total_counted"]
    /\ UNCHANGED <<last_arxiv_request_time, now>>
    /\ ThreadFrame

\* lines 93-99: the clock and last_arxiv_request_time are read and the
\* sleep, if any, begins; it ends no earlier than wake.
ThreadEnterLimiter(t) ==
    /\ threads.th[t].pc = "total_counted"
    /\ threads' = [threads EXCEPT
           !.th[t].pc = "sleeping",
           !.th[t].wake =
               respect_arxiv_rate_limit(now, last_arxiv_request_time, 0).now]
    /\ UNCHANGED <<download_stats, last_arxiv_request_time, now>>
    /\ ThreadFrame

\* line 101: the sleep is over, last_arxiv_request_time = time.time().
ThreadLeaveLimiter(t) ==
    /\ threads.th[t].pc = "sleeping"
    /\ now >= threads.th[t].wake
    /\ last_arxiv_request_time' = now
    /\ threads' = [threads EXCEPT !.th[t].pc = "limited",
                                  !.th[t].passed_at = now]
    /\ UNCHANGED <<download_stats, now>>
    /\ ThreadFrame

\* line 189, the read of download_stats["arxiv_success"].
ThreadLoadSuccess(t) ==
    /\ threads.th[t].pc = "limited"
    /\ threads' = [threads EXCEPT !.th[t].pc = "success_loaded",
                                  !.th[t].reg = download_stats.arxiv_success]
    /\ UNCHANGED <<download_stats, last_arxiv_request_time, now>>
    /\ ThreadFrame

\* line 189, the write of download_stats["arxiv_success"].
ThreadStoreSuccess(t) ==
    /\ threads.th[t].pc = "success_loaded"
    /\ download_stats' =
          [download_stats EXCEPT !.arxiv_success = threads.th[t].reg + 1]
    /\ threads' = [threads EXCEPT !.th[t].pc = "done"]
    /\ UNCHANGED <<last_arxiv_request_time, now>>
    /\ ThreadFrame

\* The clock.
ThreadTick ==
    /\ now < MaxTime
    /\ now' = now + 1
    /\ UNCHANGED <<download_stats, last_arxiv_request_time, threads>>
    /\ ThreadFrame

ThreadsNext ==
    \/ \E t \in Threads : ThreadLoadTotal(t)
    \/ \E t \in Threads : ThreadStoreTotal(t)
    \/ \E t \in Threads : ThreadEnterLimiter(t)
    \/ \E t \in Threads : ThreadLeaveLimiter(t)
    \/ \E t \in Threads : ThreadLoadSuccess(t)
    \/ \E t \in Threads : ThreadStoreSuccess(t)
    \/ ThreadTick

ThreadsSpec == ThreadsInit /\ [][ThreadsNext]_vars

\* ------------------------------------------------------ SearchDatabase
RECURSIVE JoinComma(_)
\* ",".join(items)
JoinComma(items) ==
    IF items = <<>> THEN <<>>
    ELSE IF Len(items) = 1 THEN <<items[1]>>
    ELSE <<items[1], ",">> \o JoinComma(Tail(items))

\* The fields_of_study argument: None or a list of names.
FieldsOfStudy ==
    { [kind |-> "None", items |-> <<>>],
      [kind |-> "list", items |-> <<>>],
      [kind |-> "list", items |-> <<"CS", "Med">>] }

SearchArgs ==
    [query : {<<"q">>}, fields_of_study : FieldsOfStudy]

\* database.py lines 78-95: the row record_search inserts; fields_of_study
\* is stored joined by commas, NULL when it is None or empty.
search_row(id, args) ==
    [id |-> id, query |-> args.query,
     fields_of_study |->
        IF args.fields_of_study.kind = "list"
           /\ args.fields_of_study.items /= <<>>
        THEN [null |-> FALSE, text |-> JoinComma(args.fields_of_study.items)]
        ELSE [null |-> TRUE, text |-> <<>>]]

\* database.py lines 63-101: the table after record_search and the id it
\* returns.
record_search(searches, args) ==
    [searches |-> insert_row(searches, search_row(lastrowid(searches), args)),
     ret |-> lastrowid(searches)]

\* database.py lines 103-138
record_paper(papers, sid, p, download_path, download_success) ==
    insert_row(papers, paper_row(sid, p, download_path, download_success))

\* The papers handed to record_paper directly.
RecordedPapers ==
    {p \in Papers : /\ ~p.isOpenAccess /\ p.openAccessPdf = NoPdfRef
                    /\ p.url = "http" /\ p.arxivId = "absent"}

\* The search ids handed to record_paper directly.
GivenSearchIds == {FIRST_ROW_ID, FIRST_ROW_ID + 1}

DbInit ==
    /\ DownloaderInit
    /\ MainIdle
    /\ DbIdle
    /\ pdf_call = Unused
    /\ rate_call = Unused
    /\ extract_call = Unused
    /\ sp = Unused
    /\ MoreIdle
    /\ oa_server = NoResponse
    /\ landing_page = "any"

\* database.py lines 63-101; a sqlite3 error leaves the call before the
\* commit.
DbRecordSearch ==
    /\ Len(db_searches) + Len(db_papers) < MaxRows
    /\ \E args \in SearchArgs, db_ok \in BOOLEAN :
         LET r == record_search(db_searches, args)
         IN  /\ db_searches' = IF db_ok THEN r.searches ELSE db_searches
             /\ db_call' = [made |-> TRUE, op |-> "record_search",
                            ok |-> db_ok, search_id |-> 0,
                            ret |-> IF db_ok THEN r.ret ELSE 0,
                            pre_searches |-> db_searches,
                            pre_papers |-> db_papers]
    /\ UNCHANGED <<dl_vars, main_vars, oa_server, landing_page, pdf_call,
                   rate_call, extract_call, sp,
                   more_vars>>

\* database.py lines 103-138
DbRecordPaper ==
    /\ Len(db_searches) + Len(db_papers) < MaxRows
    /\ \E sid \in GivenSearchIds, p \in RecordedPapers,
          success \in BOOLEAN, db_ok \in BOOLEAN :
       \E path \in {NonePath, base_filename(p.title)} :
         /\ db_papers' = IF db_ok
                          THEN record_paper(db_papers, sid, p, path, success)
                          ELSE db_papers
         /\ db_call' = [made |-> TRUE, op |-> "record_paper", ok |-> db_ok,
                        search_id |-> sid, ret |-> 0,
                        pre_searches |-> db_searches,
                        pre_papers |-> db_papers]
    /\ UNCHANGED <<download_stats, last_arxiv_request_time, dir_exists, files,
                   now, ncalls, call, main_vars, oa_server, landing_page,
                   db_searches, pdf_call, rate_call, extract_call, sp,
                   more_vars>>

DbNext ==
    \/ DbRecordSearch
    \/ DbRecordPaper

DbSpec == DbInit /\ [][DbNext]_vars

\* ------------------------------------------------------- search_papers
next_page_budget_one_more(max_pages) ==
    IF max_pages > 0 THEN max_pages ELSE 0

\* search.py line 28: the length of range(max_pages - 1).
next_page_budget(max_pages) ==
    IF max_pages - 1 > 0 THEN max_pages - 1 ELSE 0

\* The argument max_pages, the number of pages the service holds for the
\* query, and the next_page call a transport error hits (0: none).
SearchInit ==
    /\ DownloaderInit
    /\ MainIdle
    /\ DbIdle
    /\ pdf_call = Unused
    /\ rate_call = Unused
    /\ extract_call = Unused
    /\ oa_server = NoResponse
    /\ landing_page = "any"
    /\ MoreIdle
    /\ sp \in [pc : {"start"}, max_pages : 1..MaxPages,
               available : 1..(MaxPages + 1), fail_at : 0..MaxPages,
               i : {0}, calls : {0}, no_more_at : {0}, items : {<<>>},
               ret : {<<>>}]

\* search.py lines 18-26: sch.search_paper gives the first page.
SearchPaper ==
    /\ sp.pc = "start"
    /\ sp' = [sp EXCEPT !.pc = "loop", !.items = <<1>>]
    /\ UNCHANGED <<dl_vars, main_vars, oa_server, landing_page, db_searches,
                   db_call, pdf_call, rate_call, extract_call,
                   more_vars>>

\* search.py lines 28-32: one iteration; next_page appends the next page,
\* raises NoMorePagesException when there is none (the loop breaks), or
\* raises another error, which leaves search_papers.
SearchNextPage ==
    /\ sp.pc = "loop"
    /\ sp.i < next_page_budget(sp.max_pages)
    /\ LET k == sp.calls + 1
       IN  sp' = IF k = sp.fail_at
                 THEN [sp EXCEPT !.calls = k, !.pc = "raised"]
                 ELSE IF k >= sp.available
                 THEN [sp EXCEPT !.calls = k, !.no_more_at = k,
                                 !.pc = "after_loop"]
                 ELSE [sp EXCEPT !.calls = k, !.i = @ + 1,
                                 !.items = Append(@, k + 1)]
    /\ UNCHANGED <<dl_vars, main_vars, oa_server, landing_page, db_searches,
                   db_call, pdf_call, rate_call, extract_call,
                   more_vars>>

\* search.py line 34
SearchReturn ==
    /\ \/ sp.pc = "after_loop"
       \/ sp.pc = "loop" /\ sp.i = next_page_budget(sp.max_pages)
    /\ sp' = [sp EXCEPT !.pc = "returned", !.ret = sp.items]
    /\ UNCHANGED <<dl_vars, main_vars, oa_server, landing_page, db_searches,
                   db_call, pdf_call, rate_call, extract_call,
                   more_vars>>

SearchNext ==
    \/ SearchPaper
    \/ SearchNextPage
    \/ SearchReturn

SearchSpec == SearchInit /\ [][SearchNext]_vars

\* ------------------------------------------------------------- main()
\* What search_papers can return to main(): n papers, numbered by their
\* paperId, in one order or the other.
ResultLists ==
    UNION {{[i \in 1..n |-> i], [i \in 1..n |-> n + 1 - i]} :
              n \in 0..MaxResults}

\* The arguments of the run.
MainArgs ==
    [query |-> <<"q">>,
     fields_of_study |-> [kind |-> "list", items |-> <<"CS", "Med">>]]

\* The searches table main() finds: search_history.db is kept from one run
\* to the next.
EarlierSearches ==
    { <<>>,
      <<search_row(FIRST_ROW_ID,
                   [query |-> <<"q">>,
                    fields_of_study |-> [kind |-> "None", items |-> <<>>]])>> }

\* --max-results-per-page on either side of the limit.
ResultsPerPage == {MAX_RESULTS_PER_PAGE, MAX_RESULTS_PER_PAGE + 1}

\* search_cli.py line 110: what parse_args gives.
MainArgSets == [max_results_per_page : ResultsPerPage]

MainInit ==
    /\ DownloaderInit
    /\ main_pc = "start"
    /\ results_len = 0
    /\ attempted = 0
    /\ search_id = 0
    /\ main_results = <<>>
    /\ main_log = <<>>
    /\ main_args \in MainArgSets
    /\ main_exc = "None"
    /\ main_summary = [made |-> FALSE]
    /\ db_searches \in EarlierSearches
    /\ db_call = Unused
    /\ pdf_call = Unused
    /\ rate_call = Unused
    /\ extract_call = Unused
    /\ sp = Unused
    /\ MoreIdle
    /\ oa_server = NoResponse
    /\ landing_page = "any"

limit_ok_up_to_100(max_results_per_page) ==
    max_results_per_page <= 100

\* search_cli.py line 112
limit_ok(max_results_per_page) ==
    ~(max_results_per_page > MAX_RESULTS_PER_PAGE)

no_results_never(results) ==
    FALSE

\* search_cli.py line 161: if not results
no_results(results) ==
    results = <<>>

\* search_cli.py lines 110-180: the argument check, record_search,
\* search_papers and, for a non-empty result, the Downloader and its
\* directory.
MainSearch ==
    /\ main_pc = "start"
    /\ \E db_ok \in BOOLEAN, results \in ResultLists :
         IF ~limit_ok(main_args.max_results_per_page)
         THEN /\ main_pc' = "raised"
              /\ main_exc' = "ValueError"
              /\ UNCHANGED <<results_len, search_id, dir_exists, main_results,
                             main_log, db_searches>>
         ELSE IF ~db_ok
         THEN /\ main_pc' = "raised"
              /\ main_exc' = "DatabaseError"
              /\ main_log' = <<[op |-> "record_search"]>>
              /\ UNCHANGED <<results_len, search_id, dir_exists, main_results,
                             db_searches>>
         ELSE LET r == record_search(db_searches, MainArgs)
              IN  /\ db_searches' = r.searches
                  /\ search_id' = r.ret
                  /\ main_results' = results
                  /\ results_len' = Len(results)
                  /\ main_pc' = IF no_results(results) THEN "done"
                                ELSE "downloading"
                  /\ dir_exists' = ~no_results(results)
                  /\ main_log' =
                        <<[op |-> "record_search"], [op |-> "search_papers"]>>
                        \o (IF no_results(results) THEN <<>>
                            ELSE <<[op |-> "Downloader"],
                                   [op |-> "create_directory"]>>)
                  /\ main_exc' = "None"
    /\ UNCHANGED <<download_stats, last_arxiv_request_time, files, db_papers,
                   now, ncalls, call, attempted, main_args, main_summary,
                   oa_server, landing_page, unit_vars>>

\* search_cli.py lines 184-195: one iteration of the download loop; an
\* exception out of download_paper ends main.
MainDownload ==
    /\ main_pc = "downloading"
    /\ attempted < results_len
    /\ \E p \in Papers :
         \E out \in download_paper(p, search_id, DownloaderState, OAResponses,
                                  LandingPages) :
            /\ ApplyOutcome(p, search_id, out)
            /\ main_pc' = IF out.raised /= "None" THEN "raised"
                          ELSE "downloading"
            /\ main_exc' = out.raised
    /\ attempted' = attempted + 1
    /\ main_log' = Append(main_log,
                          [op |-> "download_paper",
                           paper |-> main_results[attempted + 1],
                           search_id |-> search_id])
    /\ UNCHANGED <<results_len, search_id, main_results, main_args,
                   main_summary>>

\* search_cli.py lines 198-211: the figures of the summary; the success
\* rate, a percentage, is kept as the fraction rate_num / rate_den.
download_summary(stats) ==
    LET success_count == stats.open_access_success + stats.arxiv_success
    IN  [made |-> TRUE,
         total |-> stats.total,
         success_count |-> success_count,
         failed |-> stats.failed,
         rate_num |-> IF stats.total > 0 THEN success_count * 100 ELSE 0,
         rate_den |-> IF stats.total > 0 THEN stats.total ELSE 1]

\* search_cli.py lines 197-214: the loop is over, the summary is logged.
MainSummary ==
    /\ main_pc = "downloading"
    /\ attempted = results_len
    /\ main_pc' = "done"
    /\ main_summary' = download_summary(download_stats)
    /\ UNCHANGED <<dl_vars, results_len, attempted, search_id, main_results,
                   main_log, main_args, main_exc, oa_server, landing_page,
                   db_searches, unit_vars>>

MainNext ==
    \/ MainSearch
    \/ MainDownload
    \/ MainSummary

MainSpec == MainInit /\ [][MainNext]_vars

\* ------------------------------------------------------------ claims
Has(ev, e) ==
    \E i \in DOMAIN ev : ev[i] = e

SuccessSum(st) ==
    st.open_access_success + st.semantic_reader_success + st.arxiv_success

OAEvents == {"oa_get", "oa_write", "oa_write_error"}

SREvents == {"sr_get", "sr_write", "sr_write_error"}

ArxivEvents == {"rate_limit", "arxiv_write", "arxiv_write_error"}

\* 1 for the open-access strategy, 2 for the semantic reader, 3 for arXiv.
StrategyOf(e) ==
    IF e \in OAEvents THEN 1 ELSE IF e \in SREvents THEN 2 ELSE 3

\* The paper carries an open-access PDF link.
HasOALink(p) ==
    p.isOpenAccess /\ p.openAccessPdf.shape /= "None"
    /\ p.openAccessPdf.url /= <<>>

\* What a title's file is called: the title of Titles, sanitized by hand.
ExpectedPdfPath ==
    [name |-> <<"T", " ", "a", "-", "b", "_", "1">>, ext |-> ".pdf"]

\* C1: after every download_paper call, whatever its outcome, total equals
\* the sum of the success counters plus failed.
C1_StatsBalanced ==
    download_stats.total = SuccessSum(download_stats) + download_stats.failed

C4_StopAtFirstSuccess ==
    call.made =>
        /\ \A i, j \in DOMAIN call.events :
             i < j => StrategyOf(call.events[i]) <= StrategyOf(call.events[j])
        /\ \A i \in DOMAIN call.events :
             call.events[i] \in {"oa_write", "sr_write", "arxiv_write"}
             => i = Len(call.events)
        /\ (call.raised = "None" /\ Has(call.events, "oa_write"))
             => call.ret_method = "open_access"
        /\ (call.raised = "None" /\ Has(call.events, "sr_write"))
             => call.ret_method = "semantic_reader"
        /\ (call.raised = "None" /\ Has(call.events, "arxiv_write"))
             => call.ret_method = "arxiv"
        /\ (call.raised = "None" /\ call.ret_path /= NonePath)
             => \E e \in {"oa_write", "sr_write", "arxiv_write"} :
                    Has(call.events, e)

C4_Witness ==
    /\ call.made
    /\ call.events = <<"oa_get", "sr_get", "sr_write">>
    /\ call.paper.arxivId = "id"
    /\ call.raised = "None"
    /\ call.ret_method = "semantic_reader"

\* C5: an exception raised while a strategy runs is caught in download_paper:
\* failed is incremented by one, the recorder is invoked once with path None
\* and success False, only the recorder's own error can leave the call, and
\* the call that returns returns path None.
C5_StrategyExceptionContained ==
    (call.made /\ call.exc) =>
        /\ call.dir
        /\ download_stats.failed = call.pre.failed + 1
        /\ call.recorded = <<[search_id |-> call.search_id,
                              path |-> NonePath, success |-> FALSE]>>
        /\ call.raised \in {"None", "DatabaseError"}
        /\ call.raised = "None" => call.ret_path = NonePath

C5_Witness ==
    /\ call.made /\ call.exc
    /\ Has(call.events, "oa_write_error")
    /\ call.raised = "None"
    /\ call.ret_path = NonePath
    /\ db_papers /= <<>>
    /\ ~db_papers[Len(db_papers)].download_success

\* C6: with the directory present, main attempts download_paper for every
\* one of the N results: when main is over, N papers have been attempted.
C6_BatchNeverAborted ==
    (main_pc \in {"done", "raised"} /\ results_len > 0 /\ dir_exists)
    => attempted = results_len

\* C7: a strategy that fails locally (an error status, a wrong content type,
\* a transport error) leaves the next strategies to be attempted: a paper
\* whose open-access request did not lead to a download, and which has a
\* landing page and an arXiv identifier, gets the semantic reader attempted,
\* and the arXiv strategy unless the semantic reader succeeded.
C7_LocalFailureTriesNext ==
    (call.made /\ call.dir
        /\ Has(call.events, "oa_get")
        /\ ~Has(call.events, "oa_write")
        /\ ~Has(call.events, "oa_write_error")
        /\ call.paper.url = "http"
        /\ call.paper.arxivId = "id")
    => /\ Has(call.events, "sr_get")
       /\ ~Has(call.events, "sr_write") => Has(call.events, "rate_limit")

\* C8: download_paper called while the directory is missing raises
\* ValueError before any request, file write or recorder call; called while
\* the directory exists (create_directory has run) it does not raise it.
C8_MissingDirectoryRaisesFirst ==
    call.made =>
        /\ ~call.dir => /\ call.raised = "ValueError"
                        /\ call.events = <<>>
                        /\ call.recorded = <<>>
                        /\ files = {}
        /\ call.dir => call.raised /= "ValueError"

C8_Witness ==
    /\ call.made /\ ~call.dir
    /\ call.raised = "ValueError"
    /\ HasOALink(call.paper)
    /\ dir_exists

\* C9: for a paper with no landing-page URL, no open-access flag and no
\* arXiv identifier, download_paper (the directory existing) adds one to
\* total and to failed and nothing to a success counter, invokes the
\* recorder with (search_id, paper, None, False), and returns (None, None).
C9_NothingAvailableFails ==
    (call.made /\ call.dir
        /\ call.paper.url \in {"absent", "None"}
        /\ ~call.paper.isOpenAccess
        /\ call.paper.arxivId \in {"absent", "None"})
    => /\ download_stats =
            [call.pre EXCEPT !.total = @ + 1, !.failed = @ + 1]
       /\ call.recorded = <<[search_id |-> call.search_id,
                             path |-> NonePath, success |-> FALSE]>>
       /\ call.raised = "None"
            => /\ call.ret_path = NonePath
               /\ call.ret_method = "None"
               /\ db_papers /= <<>>
               /\ db_papers[Len(db_papers)] =
                    [search_id |-> call.search_id,
                     title |-> call.paper.title,
                     download_path |-> NonePath,
                     download_success |-> FALSE,
                     has_timestamp |-> FALSE]

C9_Witness ==
    /\ call.made /\ call.dir
    /\ call.paper.url = "None"
    /\ ~call.paper.isOpenAccess
    /\ call.paper.arxivId = "absent"
    /\ call.raised = "None"
    /\ download_stats.failed = 2

\* The content types of ContentTypes that begin with application/pdf when
\* case is ignored.
PdfContentTypes ==
    { APPLICATION_PDF,
      <<"A","p","p","l","i","c","a","t","i","o","n","/","P","D","F">>,
      APPLICATION_PDF \o <<";","c">> }

\* C10: the open-access strategy, its request answered, accepts the
\* response exactly when the status is 200 and the content type begins with
\* application/pdf, case ignored. On accept it writes the content to
\* <directory>/<sanitized title>.pdf, counts an open-access success, has the
\* path recorded with success True and the call returns the path with method
\* open_access; otherwise it writes nothing and counts no success.
C10_OpenAccessAccept ==
    (call.made /\ Has(call.events, "oa_get") /\ ~oa_server.raised) =>
        LET accepted == \/ Has(call.events, "oa_write")
                        \/ Has(call.events, "oa_write_error")
            written == Has(call.events, "oa_write")
        IN  /\ accepted <=> (oa_server.status = 200
                             /\ oa_server.ctype \in PdfContentTypes)
            /\ written =>
                /\ [path |-> ExpectedPdfPath, content |-> "oa_content"]
                       \in files
                /\ \A f \in files :
                     f.path /= ExpectedPdfPath => f \in call.pre_files
                /\ \A f \in call.pre_files :
                     f.path /= ExpectedPdfPath => f \in files
                /\ download_stats.open_access_success =
                       call.pre.open_access_success + 1
                /\ call.recorded = <<[search_id |-> call.search_id,
                                      path |-> ExpectedPdfPath,
                                      success |-> TRUE]>>
                /\ call.raised = "None"
                     => /\ call.ret_path = ExpectedPdfPath
                        /\ call.ret_method = "open_access"
            /\ ~written =>
                /\ download_stats.open_access_success =
                       call.pre.open_access_success
                /\ call.ret_method /= "open_access"
                /\ (~Has(call.events, "sr_write")
                        /\ ~Has(call.events, "arxiv_write"))
                     => files = call.pre_files

C10_Witness ==
    /\ call.made
    /\ Has(call.events, "oa_write")
    /\ oa_server.ctype =
         <<"A","p","p","l","i","c","a","t","i","o","n","/","P","D","F">>
    /\ call.raised = "None"
    /\ call.ret_path = ExpectedPdfPath

\* C11: for a paper taken for an arXiv paper whose arXiv strategy succeeds,
\* download_paper returns <directory>/<sanitized title>.pdf with method
\* arxiv, adds exactly one to arxiv_success, and has that same .pdf path
\* recorded with success True.
C11_ArxivReturnsPdfPath ==
    (call.made /\ call.dir /\ call.paper.arxivId = "id"
        /\ Has(call.events, "arxiv_write"))
    => /\ download_stats.arxiv_success = call.pre.arxiv_success + 1
       /\ call.recorded = <<[search_id |-> call.search_id,
                             path |-> ExpectedPdfPath, success |-> TRUE]>>
       /\ call.raised = "None"
            => /\ call.ret_path = ExpectedPdfPath
               /\ call.ret_method = "arxiv"

\* C12: for a paper whose landing-page URL serves PDF content and for which
\* neither the arXiv nor the open-access strategy succeeds, download_paper
\* writes the bytes to <directory>/<sanitized title>.pdf, counts a success,
\* has that path recorded with success True and returns it with method
\* direct_url.
C12_DirectUrlDownload ==
    (call.made /\ call.dir /\ landing_page = "pdf"
        /\ call.paper.url = "http"
        /\ call.paper.arxivId = "absent"
        /\ ~Has(call.events, "oa_write")
        /\ ~call.exc)
    => /\ \E f \in files : f.path = ExpectedPdfPath
       /\ SuccessSum(download_stats) = SuccessSum(call.pre) + 1
       /\ call.recorded = <<[search_id |-> call.search_id,
                             path |-> ExpectedPdfPath, success |-> TRUE]>>
       /\ call.raised = "None"
            => /\ call.ret_path = ExpectedPdfPath
               /\ call.ret_method = "direct_url"

\* C13: _handle_pdf_download returns True exactly when it has written the
\* file, and the bytes it writes begin with %PDF-; a response whose content
\* does not begin with %PDF- is rejected (False, nothing written) even when
\* its Content-Type is application/pdf.
C13_OnlyPdfMagicWritten ==
    pdf_call.made =>
        /\ pdf_call.ok =>
              \E c \in {pdf_call.r1.content, pdf_call.r2.content} :
                 /\ StartsWith(c, PDF_MAGIC)
                 /\ files = {[path |-> ExpectedPdfPath, content |-> c]}
        /\ ~pdf_call.ok => files = {}
        /\ (pdf_call.r1.kind = "ok"
                /\ pdf_call.r1.ctype = APPLICATION_PDF
                /\ ~StartsWith(pdf_call.r1.content, PDF_MAGIC))
             => ~pdf_call.ok /\ files = {}

C13_Witness ==
    /\ pdf_call.made
    /\ pdf_call.r1.kind = "ok"
    /\ pdf_call.r1.ctype = APPLICATION_PDF
    /\ pdf_call.r1.content = <<"%", "P", "D", "F">>
    /\ pdf_call.write_ok
    /\ ~pdf_call.ok
    /\ files = {}

\* C14: _respect_arxiv_rate_limit, called e seconds after
\* last_arxiv_request_time, asks time.sleep for exactly 3 - e seconds when
\* e < 3 and does not sleep when e >= 3.
C14_SleepsTheRemainder ==
    rate_call.made =>
        rate_call.slept = (IF rate_call.elapsed < 3
                           THEN 3 - rate_call.elapsed ELSE 0)

C14_Witness ==
    /\ rate_call.made
    /\ rate_call.elapsed = 1
    /\ rate_call.slept = 2

\* C15: calls made one after the other leave last_arxiv_request_time at the
\* clock value read after the sleep, if any, has ended, so the return times
\* of two consecutive calls are at least 3 seconds apart, a sleep lasting at
\* least the duration asked for.
C15_ReturnsThreeSecondsApart ==
    rate_call.made =>
        /\ last_arxiv_request_time = rate_call.returned_at
        /\ rate_call.after_call =>
              rate_call.returned_at - rate_call.prev_returned_at >= 3

C15_Witness ==
    /\ rate_call.made
    /\ rate_call.after_call
    /\ rate_call.slept = 2
    /\ rate_call.returned_at = rate_call.prev_returned_at + 4

ABS_PREFIX == <<"a", "b", "s", "/">>

\* The identifier a source hint names: the volume of a journal called ArXiv,
\* a leading abs/ stripped; <<>> when there is no such hint.
SourceHintId(p) ==
    IF p.journal.name /= ARXIV THEN <<>>
    ELSE IF StartsWith(p.journal.volume, ABS_PREFIX)
         THEN SubSeq(p.journal.volume, Len(ABS_PREFIX) + 1,
                     Len(p.journal.volume))
    ELSE p.journal.volume

\* The first identifier found among the source hint, the landing-page URL,
\* externalIds['ArXiv'] and the alternate versions; <<>> when none is.
FirstOfFourSources(p) ==
    IF SourceHintId(p) /= <<>> THEN SourceHintId(p)
    ELSE IF p.url_id /= <<>> THEN p.url_id
    ELSE IF p.externalIds /= <<>> THEN p.externalIds
    ELSE p.alternate_id

\* C16: for a paper with a source-hint identifier (journal ArXiv with a
\* volume) and a different identifier in its landing-page URL, the arXiv
\* strategy runs with the source-hint identifier, a leading abs/ stripped.
C16_SourceHintWins ==
    (extract_call.made
        /\ SourceHintId(extract_call.paper) /= <<>>
        /\ extract_call.paper.url_id /= <<>>
        /\ extract_call.paper.url_id /= SourceHintId(extract_call.paper))
    => /\ extract_call.attempted
       /\ ~extract_call.raised
       /\ extract_call.id = SourceHintId(extract_call.paper)

\* C17: the identifier used is the first non-empty one of the four sources
\* in the order source hint, landing-page URL, externalIds['ArXiv'],
\* alternate versions; when none of them gives one the arXiv strategy is
\* skipped.
C17_FirstOfFourSources ==
    extract_call.made =>
        IF FirstOfFourSources(extract_call.paper) = <<>>
        THEN ~extract_call.attempted
        ELSE /\ extract_call.attempted
             /\ ~extract_call.raised
             /\ extract_call.id = FirstOfFourSources(extract_call.paper)

\* table is table_before with exactly one row added at its end.
OneRowAppended(table_before, table) ==
    /\ Len(table) = Len(table_before) + 1
    /\ SubSeq(table, 1, Len(table_before)) = table_before

\* C18: the log only grows: a record_search call adds exactly one row to
\* searches and returns that row's id, which no earlier row has; a
\* record_paper call adds exactly one row to papers, carrying the search id
\* it was given; neither changes or removes a row that was there before.
C18_AppendOnly ==
    (db_call.made /\ db_call.ok) =>
        /\ db_call.op = "record_search" =>
              /\ OneRowAppended(db_call.pre_searches, db_searches)
              /\ db_searches[Len(db_searches)].id = db_call.ret
              /\ \A i \in DOMAIN db_call.pre_searches :
                    db_call.pre_searches[i].id /= db_call.ret
              /\ db_papers = db_call.pre_papers
        /\ db_call.op = "record_paper" =>
              /\ OneRowAppended(db_call.pre_papers, db_papers)
              /\ db_papers[Len(db_papers)].search_id = db_call.search_id
              /\ db_searches = db_call.pre_searches

C18_Witness ==
    /\ db_call.made /\ db_call.ok
    /\ db_call.op = "record_paper"
    /\ db_call.search_id = 2
    /\ Len(db_call.pre_papers) = 1
    /\ Len(db_papers) = 2
    /\ db_papers[1].search_id = 1
    /\ Len(db_searches) = 1

\* C19: search_papers calls next_page at most max_pages - 1 times, stops at
\* the first NoMorePagesException, which does not leave it, and returns the
\* items gathered so far: it has made max_pages - 1 calls when no page was
\* missing and k calls when the k-th call raised NoMorePagesException.
C19_NextPageCalls ==
    sp.pc /= "start" =>
        /\ sp.calls <= sp.max_pages - 1
        /\ sp.no_more_at /= 0 =>
              /\ sp.calls = sp.no_more_at
              /\ sp.pc \in {"after_loop", "returned"}
        /\ sp.pc = "raised" => sp.calls = sp.fail_at
        /\ sp.pc = "returned" =>
              /\ sp.no_more_at = 0 => sp.calls = sp.max_pages - 1
              /\ sp.ret = [n \in 1..(IF sp.no_more_at = 0 THEN sp.max_pages
                                     ELSE sp.no_more_at) |-> n]

C19_Witness ==
    /\ sp.pc = "returned"
    /\ sp.max_pages = 4
    /\ sp.available = 2
    /\ sp.no_more_at = 2
    /\ sp.calls = 2
    /\ sp.ret = <<1, 2>>

\* C20: once main is over for a search that returned a non-empty list,
\* main has called create_directory exactly once, before the first
\* download_paper call, and then download_paper exactly once per result,
\* in the order of the results, each time with the id record_search
\* returned.
C20_OneDownloadPerResultInOrder ==
    (main_pc \in {"done", "raised"} /\ main_results /= <<>>)
    => main_log =
          <<[op |-> "record_search"], [op |-> "search_papers"],
            [op |-> "Downloader"], [op |-> "create_directory"]>>
          \o [i \in 1..Len(main_results) |->
                 [op |-> "download_paper", paper |-> main_results[i],
                  search_id |-> db_searches[Len(db_searches)].id]]

\* C21: main called with max_results_per_page greater than 1000 raises
\* ValueError, and does so before a search is recorded, the API is searched
\* or a directory is created; with a value up to 1000 it does not raise it.
C21_LimitCheckedFirst ==
    main_pc /= "start" =>
        /\ main_args.max_results_per_page > 1000 =>
              /\ main_pc = "raised"
              /\ main_exc = "ValueError"
              /\ main_log = <<>>
              /\ db_searches \in EarlierSearches
              /\ main_results = <<>>
              /\ ~dir_exists
              /\ db_papers = <<>>
        /\ main_args.max_results_per_page <= 1000 =>
              /\ main_exc /= "ValueError"
              /\ main_log /= <<>>

C21_Witness ==
    /\ main_pc = "raised"
    /\ main_exc = "ValueError"
    /\ main_args.max_results_per_page = 1001
    /\ Len(db_searches) = 1

\* C22: a Downloader built with bulk False has sort relevance:desc whatever
\* sort it was given and max_results_per_page as given; built with bulk True
\* it has max_results_per_page 1000 and the sort it was given.
C22_InitNormalizes ==
    init_call.made =>
        /\ ~init_call.args.bulk =>
              /\ init_call.self.sort = "relevance:desc"
              /\ init_call.self.max_results_per_page =
                     init_call.args.max_results_per_page
        /\ init_call.args.bulk =>
              /\ init_call.self.max_results_per_page = 1000
              /\ init_call.self.sort = init_call.args.sort

C22_Witness ==
    /\ init_call.made
    /\ ~init_call.args.bulk
    /\ init_call.args.sort = "citationCount:desc"
    /\ init_call.args.max_results_per_page = 10
    /\ init_call.self.sort = "relevance:desc"
    /\ init_call.self.max_results_per_page = 10

\* C23: the summary main logs once every paper is processed accounts for
\* every attempt: the successes it reports are the sum of all the success
\* counters, so successes plus failures equal the total reported, and the
\* success rate is successes / total (0 when total is 0).
C23_SummaryAccountsForAll ==
    main_summary.made =>
        /\ main_summary.success_count = SuccessSum(download_stats)
        /\ main_summary.success_count + main_summary.failed
              = main_summary.total
        /\ main_summary.rate_num * main_summary.total
              = main_summary.success_count * 100 * main_summary.rate_den

\* C24: _handle_pdf_download issues one GET or two, the first to the URL it
\* was given. It issues the second, to that URL (less trailing slashes) with
\* .pdf appended, only when the first GET completed without HTTP error, the
\* content type of its response is not PDF and the URL has no .pdf suffix.
\* A timeout or an HTTP error status on a GET ends the call with False, no
\* further request and no file written.
C24_AtMostTwoGets ==
    pdf_call.made =>
        /\ Len(pdf_call.requests) \in {1, 2}
        /\ pdf_call.requests[1] = pdf_call.pdf_url
        /\ Len(pdf_call.requests) = 2 =>
              /\ pdf_call.r1.kind = "ok"
              /\ ~Contains(Lower(pdf_call.r1.ctype), APPLICATION_PDF)
              /\ ~EndsWith(Lower(pdf_call.pdf_url), DOT_PDF)
              /\ EndsWith(pdf_call.requests[2], DOT_PDF)
              /\ \E n \in 0..Len(pdf_call.pdf_url) :
                    /\ pdf_call.requests[2] =
                          SubSeq(pdf_call.pdf_url, 1, n) \o DOT_PDF
                    /\ \A i \in (n + 1)..Len(pdf_call.pdf_url) :
                          pdf_call.pdf_url[i] = "/"
        /\ pdf_call.r1.kind \in {"timeout", "http_error"} =>
              /\ ~pdf_call.ok
              /\ Len(pdf_call.requests) = 1
              /\ files = {}
        /\ (Len(pdf_call.requests) = 2
                /\ pdf_call.r2.kind \in {"timeout", "http_error"}) =>
              /\ ~pdf_call.ok
              /\ files = {}

C24_Witness ==
    /\ pdf_call.made
    /\ pdf_call.pdf_url = <<"u", "/">>
    /\ pdf_call.requests = <<<<"u", "/">>, <<"u", ".", "p", "d", "f">>>>
    /\ pdf_call.r2.kind = "http_error"
    /\ pdf_call.r2.status = 503
    /\ ~pdf_call.ok
    /\ files = {}

\* The number of times e occurs in ev.
Count(ev, e) ==
    Cardinality({i \in DOMAIN ev : ev[i] = e})

\* C25: within a download_paper call the rate limiter is applied exactly once
\* before the arXiv attempt and before that attempt counts as a success; it
\* is not applied in a call where an earlier strategy succeeded, nor in a
\* call on a paper that has no arXiv identifier.
C25_RateLimitOnlyForArxiv ==
    call.made =>
        /\ Count(call.events, "rate_limit") <= 1
        /\ \A i \in DOMAIN call.events :
              call.events[i] \in {"arxiv_write", "arxiv_write_error"}
              => /\ i > 1
                 /\ call.events[i - 1] = "rate_limit"
        /\ download_stats.arxiv_success > call.pre.arxiv_success
              => Has(call.events, "rate_limit")
        /\ (Has(call.events, "oa_write") \/ Has(call.events, "sr_write"))
              => ~Has(call.events, "rate_limit")
        /\ call.paper.arxivId \in {"absent", "None"}
              => ~Has(call.events, "rate_limit")

BothThreadsDone ==
    \A t \in Threads : threads.th[t].pc = "done"

\* The time between the two threads' passing the rate limiter.
PassGap ==
    IF threads.th[1].passed_at >= threads.th[2].passed_at
    THEN threads.th[1].passed_at - threads.th[2].passed_at
    ELSE threads.th[2].passed_at - threads.th[1].passed_at

\* C26: the rate limiter and the counters are right under serialized use
\* only: two download_paper calls of which one ends before the other begins
\* pass the limiter at least 3 seconds apart and leave total equal to the
\* success counters plus failed, both calls counted; two calls that
\* interleave can pass the limiter less than 3 seconds apart and lose a
\* counter update, leaving total different from that sum (the state
\* C26_Witness).
C26_SerializedUseIsRight ==
    (BothThreadsDone /\ ~threads.overlapped) =>
        /\ PassGap >= ARXIV_RATE_LIMIT
        /\ download_stats.total = Cardinality(Threads)
        /\ download_stats.total =
              SuccessSum(download_stats) + download_stats.failed

C26_Witness ==
    /\ BothThreadsDone
    /\ threads.overlapped
    /\ PassGap < ARXIV_RATE_LIMIT
    /\ download_stats.total /=
          SuccessSum(download_stats) + download_stats.failed

\* The success counter of a strategy name.
CounterOf(method) ==
    CASE method = "open_access" -> "open_access_success"
      [] method = "semantic_reader" -> "semantic_reader_success"
      [] method = "arxiv" -> "arxiv_success"

\* C27: a download_paper call that returns yields a consistent pair: the
\* method is None exactly when the path is None, and a method that is not
\* None names a strategy whose success counter the call incremented.
C27_ConsistentPair ==
    (call.made /\ call.raised = "None") =>
        /\ (call.ret_method = "None") <=> (call.ret_path = NonePath)
        /\ call.ret_method /= "None" =>
              /\ call.ret_method \in {"open_access", "semantic_reader", "arxiv"}
              /\ download_stats[CounterOf(call.ret_method)]
                    > call.pre[CounterOf(call.ret_method)]

\* C28: the record written for a download_paper call reflects the outcome
\* the call returns: the recorder receives the path that is returned, with
\* success True exactly when that path is not None, and the row stored has
\* a download_timestamp exactly when that path is not None.
C28_RecordReflectsOutcome ==
    (call.made /\ call.raised = "None") =>
        /\ call.recorded =
              <<[search_id |-> call.search_id, path |-> call.ret_path,
                 success |-> call.ret_path /= NonePath]>>
        /\ db_papers /= <<>>
        /\ LET row == db_papers[Len(db_papers)]
           IN  /\ row.search_id = call.search_id
               /\ row.title = call.paper.title
               /\ row.download_path = call.ret_path
               /\ row.download_success <=> call.ret_path /= NonePath
               /\ row.has_timestamp <=> call.ret_path /= NonePath

C28_Witness ==
    /\ call.made /\ call.raised = "None"
    /\ call.ret_path /= NonePath
    /\ Len(db_papers) = MaxCalls
    /\ ~db_papers[1].has_timestamp
    /\ db_papers[1].download_path = NonePath
    /\ db_papers[Len(db_papers)].has_timestamp
    /\ db_papers[Len(db_papers)].download_path = call.ret_path

\* C29: a download_paper call changes the counters by a bounded step and
\* decreases none: total grows by exactly 1, the sum of the success counters
\* by at most 1, failed by at most 1, and no call increases both a success
\* counter and failed.
C29_BoundedCounterStep ==
    call.made =>
        /\ download_stats.total = call.pre.total + 1
        /\ \A k \in DOMAIN download_stats : download_stats[k] >= call.pre[k]
        /\ SuccessSum(download_stats) <= SuccessSum(call.pre) + 1
        /\ download_stats.failed <= call.pre.failed + 1
        /\ ~(/\ SuccessSum(download_stats) > SuccessSum(call.pre)
             /\ download_stats.failed > call.pre.failed)

\* C30: when the search returns no results, main returns after having
\* recorded the search (one row, whose id is the search id), and it has
\* constructed no Downloader, created no directory, attempted no download,
\* written no paper record and no file, and printed no summary.
C30_NoResultsNoDownloads ==
    (main_pc = "done" /\ main_results = <<>>) =>
        /\ main_log = <<[op |-> "record_search"], [op |-> "search_papers"]>>
        /\ db_searches /= <<>>
        /\ search_id = lastrowid(SubSeq(db_searches, 1, Len(db_searches) - 1))
        /\ db_searches[Len(db_searches)] = search_row(search_id, MainArgs)
        /\ ~dir_exists
        /\ attempted = 0
        /\ ncalls = 0
        /\ ~call.made
        /\ db_papers = <<>>
        /\ files = {}
        /\ download_stats = InitStats
        /\ ~main_summary.made

C30_Witness ==
    /\ main_pc = "done"
    /\ main_results = <<>>
    /\ main_exc = "None"
    /\ Len(db_searches) > 1
    /\ search_id = lastrowid(<<db_searches[1]>>)
    /\ main_log = <<[op |-> "record_search"], [op |-> "search_papers"]>>

====
